---- MODULE Spec2Model ----
(***************************************************************************)
(* MiniFlow (src/miniflow.py): the node arena built by the constructors,   *)
(* topological_sort (Kahn's algorithm) and forward_and_backward.           *)
(*                                                                         *)
(* Nodes are numbered in construction order.  Python object references     *)
(* become node numbers; the list objects that inbound_nodes refers to live *)
(* in the heap `lists`, so that the default-argument list of Node.__init__ *)
(* (one object shared by every Input) is one heap cell.                    *)
(*                                                                         *)
(* Numeric values: every array is a 1x1 matrix, held as an integer, so     *)
(* np.dot is the product, .T the identity, np.sum(axis=0) the identity and *)
(* shape[0] is 1.  None is << >>, a defined value v is <<v>>.              *)
(***************************************************************************)
EXTENDS Integers, Sequences, FiniteSets, TLC

\* ---------------------------------------------------------------- bounds
MaxNodes == 3
MaxCalls == 3

\* the value a feed mapping gives node n is n + d, d drawn from the offsets
FeedOffsets == {1}

Kinds == {"Input", "Linear", "Sigmoid", "MSE"}

VARIABLES
    lists,           \* heap of list objects; lists[1] is the default argument of Node.__init__
    kind,            \* kind[n]: the class of node n
    inbound_nodes,   \* inbound_nodes[n]: reference (index into lists) of n's inbound list
    outbound_nodes,  \* outbound_nodes[n]: n's outbound list
    value,           \* value[n]: None or <<v>>
    gradients,       \* gradients[n]: dict, a function from node keys to numbers
    pc,              \* "idle", "ready", "forward", "backward"
    result,          \* how the last call ended
    calls,           \* number of topological_sort / forward_and_backward calls made
    feed_dict,       \* argument of the current / last topological_sort
    G, L, S,         \* locals of topological_sort (nodes lives inside Discover)
    held,            \* << >> or <<graph>>: the list the caller got from topological_sort
    i,               \* loop position in forward_and_backward
    steps,           \* log of the forward / backward steps of the current pass
    prev_sort,       \* << >> or <<L>>: what the previous sort of this graph with this feed returned
    prev_pass        \* << >> or <<[value, gradients]>> after the previous completed pass over held

vars == <<lists, kind, inbound_nodes, outbound_nodes, value, gradients, pc, result,
          calls, feed_dict, G, L, S, held, i, steps, prev_sort, prev_pass>>

arena == <<lists, kind, inbound_nodes, outbound_nodes>>
sortLocals == <<G, L, S>>

\* ---------------------------------------------------------------- helpers
None == << >>
Some(v) == <<v>>
EmptyDict == [k \in {} |-> 0]
DictSet(d, k, v) == [x \in (DOMAIN d) \cup {k} |-> IF x = k THEN v ELSE d[x]]

Range(s) == {s[k] : k \in DOMAIN s}
Reverse(s) == [k \in 1..Len(s) |-> s[Len(s) + 1 - k]]
Count(s, x) == Cardinality({k \in DOMAIN s : s[k] = x})

RECURSIVE SetToSeq(_)
SetToSeq(A) == IF A = {} THEN << >>
               ELSE LET m == CHOOSE x \in A : \A y \in A : x <= y
                    IN <<m>> \o SetToSeq(A \ {m})

NodeIds == 1..Len(kind)
Inbound(n) == lists[inbound_nodes[n]]

\* ---------------------------------------------------------------- construction
\* Node.__init__, lines 16-17, from position k of inbound_nodes on
RECURSIVE AppendSelf(_, _, _, _)
AppendSelf(out, inb, k, self) ==
    IF k > Len(inb) THEN out
    ELSE AppendSelf([out EXCEPT ![inb[k]] = Append(@, self)], inb, k + 1, self)

\* a registration that skips a node already registered
RECURSIVE AppendSelfOnce(_, _, _, _)
AppendSelfOnce(out, inb, k, self) ==
    IF k > Len(inb) THEN out
    ELSE AppendSelfOnce([out EXCEPT ![inb[k]] =
                            IF self \in Range(@) THEN @ ELSE Append(@, self)],
                        inb, k + 1, self)

RegisterOnce(out, inb, self) == AppendSelfOnce(out, inb, 1, self)

\* Node.__init__, lines 16-17: for n in self.inbound_nodes: n.outbound_nodes.append(self)
Register(out, inb, self) == AppendSelf(out, inb, 1, self)

\* Node.__init__ with the list object `ref` as inbound_nodes
NodeInit(cls, ref, heap) ==
    LET self == Len(kind) + 1 IN
    /\ lists' = heap
    /\ kind' = Append(kind, cls)
    /\ inbound_nodes' = Append(inbound_nodes, ref)
    /\ outbound_nodes' = Register(Append(outbound_nodes, << >>), heap[ref], self)
    /\ value' = Append(value, None)
    /\ gradients' = Append(gradients, EmptyDict)

\* the driver builds the whole graph before it orders and runs it
\* (src/neural_network.py lines 8-17, 23-33)
Built ==
    /\ pc = "idle"
    /\ calls = 0
    /\ Len(kind) < MaxNodes
    /\ UNCHANGED <<pc, result, calls, feed_dict, sortLocals, held, i, steps, prev_sort,
                   prev_pass>>

\* Input(): Node.__init__(self) takes the default argument, the shared list lists[1]
NewInput ==
    /\ Built
    /\ NodeInit("Input", 1, lists)

\* Linear(X, W, b): Node.__init__(self, [X, W, b])
NewLinear ==
    /\ Built
    /\ \E X \in NodeIds, W \in NodeIds, b \in NodeIds :
          NodeInit("Linear", Len(lists) + 1, Append(lists, <<X, W, b>>))

\* Sigmoid(node): Node.__init__(self, [node])
NewSigmoid ==
    /\ Built
    /\ \E node \in NodeIds :
          NodeInit("Sigmoid", Len(lists) + 1, Append(lists, <<node>>))

\* MSE(y, a): Node.__init__(self, [y, a])
NewMSE ==
    /\ Built
    /\ \E y \in NodeIds, a \in NodeIds :
          NodeInit("MSE", Len(lists) + 1, Append(lists, <<y, a>>))

\* ---------------------------------------------------------------- topological_sort
GNew(g, n) == IF n \in DOMAIN g THEN g ELSE DictSet(g, n, [in |-> {}, out |-> {}])

\* lines 177-182: the for loop of the discovery pass over n.outbound_nodes
RECURSIVE DiscoverEdges(_, _, _, _, _)
DiscoverEdges(g, q, n, outs, k) ==
    IF k > Len(outs) THEN [G |-> g, nodes |-> q]
    ELSE LET m == outs[k]
             g1 == GNew(g, m)
             g2 == [g1 EXCEPT ![n].out = @ \cup {m}]
             g3 == [g2 EXCEPT ![m].in = @ \cup {n}]
         IN DiscoverEdges(g3, Append(q, m), n, outs, k + 1)

\* lines 193-198: the for loop of the ready pass over n.outbound_nodes;
\* set.remove raises KeyError when the element is not in the set
RECURSIVE ReleaseEdges(_, _, _, _, _)
ReleaseEdges(g, s, n, outs, k) ==
    IF k > Len(outs) THEN [err |-> FALSE, G |-> g, S |-> s]
    ELSE LET m == outs[k] IN
         IF m \notin g[n].out \/ n \notin g[m].in
         THEN [err |-> TRUE, G |-> g, S |-> s]
         ELSE LET g1 == [g EXCEPT ![n].out = @ \ {m}]
                  g2 == [g1 EXCEPT ![m].in = @ \ {n}]
                  s1 == IF g2[m].in = {} THEN s \cup {m} ELSE s
              IN ReleaseEdges(g2, s1, n, outs, k + 1)

Inputs == {n \in NodeIds : kind[n] = "Input"}

\* the feed mappings a caller passes: keys are Input nodes
FeedDicts == {[n \in K |-> n + d] : K \in SUBSET Inputs, d \in FeedOffsets}

\* lines 173-182: the discovery loop, run until nodes is empty
RECURSIVE Discover(_, _)
Discover(g, q) ==
    IF Len(q) = 0 THEN g
    ELSE LET n == Head(q)
             r == DiscoverEdges(GNew(g, n), Tail(q), n, outbound_nodes[n], 1)
         IN Discover(r.G, r.nodes)

\* line 187: S.pop() removes and returns an arbitrary element of the set
Pop(s) == s

\* lines 169-186: input_nodes, the discovery loop, L = [], S = set(input_nodes);
\* with an empty S the ready loop is not entered and L is returned (line 199)
SortCall ==
    /\ pc = "idle"
    /\ calls < MaxCalls
    /\ \E fd \in FeedDicts :
          /\ feed_dict' = fd
          /\ G' = Discover(EmptyDict, SetToSeq(DOMAIN fd))
          /\ S' = DOMAIN fd
          /\ prev_sort' = IF held # << >> /\ feed_dict = fd THEN held ELSE << >>
          /\ IF DOMAIN fd = {}
             THEN pc' = "idle" /\ result' = "sort:returned" /\ held' = << << >> >>
             ELSE pc' = "ready" /\ result' = "none" /\ held' = << >>
    /\ L' = << >>
    /\ calls' = calls + 1
    /\ prev_pass' = << >>
    /\ UNCHANGED <<arena, value, gradients, i, steps>>

\* lines 186-199, one iteration of the ready loop; when it leaves S empty the loop
\* exits and L is returned
ReadyStep ==
    /\ pc = "ready"
    /\ \E n \in Pop(S) :
          LET r == ReleaseEdges(G, S \ {n}, n, outbound_nodes[n], 1) IN
          /\ value' = IF kind[n] = "Input" THEN [value EXCEPT ![n] = Some(feed_dict[n])]
                      ELSE value
          /\ IF r.err
             THEN /\ pc' = "idle"
                  /\ result' = "sort:KeyError"
                  /\ UNCHANGED <<L, G, S, held>>
             ELSE /\ L' = Append(L, n)
                  /\ G' = r.G
                  /\ S' = r.S
                  /\ IF r.S = {}
                     THEN pc' = "idle" /\ result' = "sort:returned" /\ held' = <<L'>>
                     ELSE UNCHANGED <<pc, result, held>>
    /\ UNCHANGED <<arena, gradients, calls, feed_dict, i, steps, prev_sort,
                   prev_pass>>

\* ---------------------------------------------------------------- forward
Val(n) == value[n][1]

\* Sigmoid._sigmoid, line 105: 1 / (1 + exp(-x)), rounded to the nearest integer
\* (below 1/2 for x < 0, at least 1/2 otherwise)
Sigmoid_sigmoid(x) == IF x < 0 THEN 0 ELSE 1

\* Input.forward(value=None), lines 42-46: no value is passed, so self.value stays
InputForward(self) == [err |-> "", value |-> value[self]]

\* Linear.forward, lines 69-72: np.dot(X, W) + b; a None operand raises TypeError
LinearForward(self) ==
    LET X == Inbound(self)[1]
        W == Inbound(self)[2]
        b == Inbound(self)[3]
    IN IF value[X] = None \/ value[W] = None \/ value[b] = None
       THEN [err |-> "TypeError", value |-> value[self]]
       ELSE [err |-> "", value |-> Some(Val(X) * Val(W) + Val(b))]

\* Sigmoid.forward, lines 108-109: -x on None raises TypeError
SigmoidForward(self) ==
    LET x == Inbound(self)[1]
    IN IF value[x] = None
       THEN [err |-> "TypeError", value |-> value[self]]
       ELSE [err |-> "", value |-> Some(Sigmoid_sigmoid(Val(x)))]

\* MSE.forward, lines 142-144: mean(square(y - a)); None.reshape raises AttributeError
MSEForward(self) ==
    LET y == Inbound(self)[1]
        a == Inbound(self)[2]
    IN IF value[y] = None \/ value[a] = None
       THEN [err |-> "AttributeError", value |-> value[self]]
       ELSE [err |-> "", value |-> Some((Val(y) - Val(a)) * (Val(y) - Val(a)))]

\* n.forward(), dispatched on the class of n
Forward(self) ==
    CASE kind[self] = "Input" -> InputForward(self)
      [] kind[self] = "Linear" -> LinearForward(self)
      [] kind[self] = "Sigmoid" -> SigmoidForward(self)
      [] kind[self] = "MSE" -> MSEForward(self)

\* ---------------------------------------------------------------- backward
\* Each backward returns [err, g]: g is the new self.gradients; n.gradients[self]
\* raises KeyError when the consumer n has no entry for self.

\* Input.backward, lines 53-55: the loop over self.outbound_nodes from position k
RECURSIVE InputSum(_, _, _, _)
InputSum(gr, self, k, g) ==
    IF k > Len(outbound_nodes[self]) THEN [err |-> "", g |-> g]
    ELSE LET n == outbound_nodes[self][k] IN
         IF self \notin DOMAIN gr[n] THEN [err |-> "KeyError", g |-> g]
         ELSE InputSum(gr, self, k + 1, [g EXCEPT ![self] = @ + gr[n][self] * 1])

\* an Input.backward that stops after its first consumer
InputBackwardFirstOnly(gr, self) ==
    IF outbound_nodes[self] = << >> THEN [err |-> "", g |-> DictSet(EmptyDict, self, 0)]
    ELSE LET n == outbound_nodes[self][1] IN
         IF self \notin DOMAIN gr[n] THEN [err |-> "KeyError", g |-> DictSet(EmptyDict, self, 0)]
         ELSE [err |-> "", g |-> DictSet(EmptyDict, self, gr[n][self])]

\* an Input.backward that does not reset self.gradients
InputBackwardAccumulate(gr, self) ==
    InputSum(gr, self, 1, IF self \in DOMAIN gr[self] THEN gr[self]
                          ELSE DictSet(EmptyDict, self, 0))

\* Input.backward, lines 48-55
InputBackward(gr, self) == InputSum(gr, self, 1, DictSet(EmptyDict, self, 0))

\* Linear.backward, lines 82-90: the loop over self.outbound_nodes from position k
RECURSIVE LinearSum(_, _, _, _)
LinearSum(gr, self, k, g) ==
    IF k > Len(outbound_nodes[self]) THEN [err |-> "", g |-> g]
    ELSE LET n == outbound_nodes[self][k]
             X == Inbound(self)[1]
             W == Inbound(self)[2]
             b == Inbound(self)[3]
         IN IF self \notin DOMAIN gr[n] THEN [err |-> "KeyError", g |-> g]
            ELSE LET gradient_cost == gr[n][self]
                     g1 == [g EXCEPT ![X] = @ + gradient_cost * Val(W)]
                     g2 == [g1 EXCEPT ![W] = @ + Val(X) * gradient_cost]
                     g3 == [g2 EXCEPT ![b] = @ + gradient_cost]
                 IN LinearSum(gr, self, k + 1, g3)

\* lines 79, 117: {n: np.zeros_like(n.value) for n in self.inbound_nodes}
ZeroGradients(self) == [n \in Range(Inbound(self)) |-> 0]

\* Linear.backward, lines 74-90
LinearBackward(gr, self) == LinearSum(gr, self, 1, ZeroGradients(self))

\* Sigmoid.backward, lines 121-126: the loop over self.outbound_nodes from position k
RECURSIVE SigmoidSum(_, _, _, _)
SigmoidSum(gr, self, k, g) ==
    IF k > Len(outbound_nodes[self]) THEN [err |-> "", g |-> g]
    ELSE LET n == outbound_nodes[self][k]
             x == Inbound(self)[1]
             sigmoid == Val(self)
         IN IF self \notin DOMAIN gr[n] THEN [err |-> "KeyError", g |-> g]
            ELSE SigmoidSum(gr, self, k + 1,
                            [g EXCEPT ![x] = @ + sigmoid * (1 - sigmoid) * gr[n][self]])

\* Sigmoid.backward, lines 111-126
SigmoidBackward(gr, self) == SigmoidSum(gr, self, 1, ZeroGradients(self))

\* MSE.backward, lines 146-158: m = shape[0] = 1; self.gradients is not reset, two
\* entries are assigned
MSEBackward(gr, self) ==
    LET y == Inbound(self)[1]
        a == Inbound(self)[2]
        error == Val(y) - Val(a)
        g1 == DictSet(gr[self], y, 2 * error)
        g2 == DictSet(g1, a, (-2) * error)
    IN [err |-> "", g |-> g2]

\* n.backward(), dispatched on the class of n
Backward(gr, self) ==
    CASE kind[self] = "Input" -> InputBackward(gr, self)
      [] kind[self] = "Linear" -> LinearBackward(gr, self)
      [] kind[self] = "Sigmoid" -> SigmoidBackward(gr, self)
      [] kind[self] = "MSE" -> MSEBackward(gr, self)

\* ---------------------------------------------------------------- forward_and_backward
graph == held[1]

\* a backward pass in forward order
ForwardOrder(g) == g

\* line 214: graph[::-1]
BackwardOrder(g) == Reverse(g)

\* forward_and_backward(graph) is called with the list topological_sort returned
PassCall ==
    /\ pc = "idle"
    /\ calls < MaxCalls
    /\ held # << >>
    /\ calls' = calls + 1
    /\ steps' = << >>
    /\ i' = 1
    /\ prev_pass' = IF result = "fb:done"
                    THEN <<[value |-> value, gradients |-> gradients]>>
                    ELSE << >>
    /\ IF Len(graph) = 0
       THEN pc' = "idle" /\ result' = "fb:done"
       ELSE pc' = "forward" /\ result' = "none"
    /\ UNCHANGED <<arena, value, gradients, feed_dict, sortLocals, held, prev_sort>>

\* lines 210-211, one iteration: n.forward()
ForwardStep ==
    /\ pc = "forward"
    /\ LET n == graph[i]
           r == Forward(n)
       IN /\ steps' = Append(steps, <<"forward", n>>)
          /\ value' = [value EXCEPT ![n] = r.value]
          /\ IF r.err # ""
             THEN pc' = "idle" /\ result' = "fb:" \o r.err /\ i' = i
             ELSE /\ result' = result
                  /\ IF i < Len(graph)
                     THEN pc' = pc /\ i' = i + 1
                     ELSE pc' = "backward" /\ i' = 1
    /\ UNCHANGED <<arena, gradients, calls, feed_dict, sortLocals, held, prev_sort,
                   prev_pass>>

\* lines 214-215, one iteration: n.backward()
BackwardStep ==
    /\ pc = "backward"
    /\ LET n == BackwardOrder(graph)[i]
           r == Backward(gradients, n)
       IN /\ steps' = Append(steps, <<"backward", n>>)
          /\ gradients' = [gradients EXCEPT ![n] = r.g]
          /\ IF r.err # ""
             THEN pc' = "idle" /\ result' = "fb:" \o r.err /\ i' = i
             ELSE IF i < Len(graph)
                  THEN pc' = pc /\ result' = result /\ i' = i + 1
                  ELSE pc' = "idle" /\ result' = "fb:done" /\ i' = i
    /\ UNCHANGED <<arena, value, calls, feed_dict, sortLocals, held, prev_sort, prev_pass>>

\* ---------------------------------------------------------------- specification
Init ==
    /\ lists = << << >> >>
    /\ kind = << >>
    /\ inbound_nodes = << >>
    /\ outbound_nodes = << >>
    /\ value = << >>
    /\ gradients = << >>
    /\ pc = "idle"
    /\ result = "none"
    /\ calls = 0
    /\ feed_dict = EmptyDict
    /\ G = EmptyDict
    /\ L = << >>
    /\ S = {}
    /\ held = << >>
    /\ i = 1
    /\ steps = << >>
    /\ prev_sort = << >>
    /\ prev_pass = << >>

Next ==
    \/ NewInput
    \/ NewLinear
    \/ NewSigmoid
    \/ NewMSE
    \/ SortCall
    \/ ReadyStep
    \/ PassCall
    \/ ForwardStep
    \/ BackwardStep

Spec == Init /\ [][Next]_vars

\* ---------------------------------------------------------------- properties
Position(seq, x) == {k \in DOMAIN seq : seq[k] = x}
Consumers(n) == Range(outbound_nodes[n])

RECURSIVE Closure(_)
Closure(A) == LET B == A \cup UNION {Consumers(n) : n \in A}
              IN IF B = A THEN A ELSE Closure(B)

\* the nodes reachable from the seed Inputs of the last sort via outbound edges
Reachable == Closure(DOMAIN feed_dict)

RECURSIVE SumOver(_, _, _)
SumOver(A, gr, key) ==
    IF A = {} THEN 0
    ELSE LET c == CHOOSE x \in A : TRUE
         IN gr[c][key] + SumOver(A \ {c}, gr, key)

SortEnded == pc = "idle" /\ result \in {"sort:returned", "sort:KeyError"}
PassEnded == pc = "idle" /\ result \in {"fb:done", "fb:TypeError", "fb:AttributeError",
                                        "fb:KeyError"}

\* C1: in the sequence topological_sort returns, every inbound node p of every node n
\* of the sequence is in the sequence, at a smaller index than n.
C1_InboundBeforeNode ==
    result = "sort:returned" =>
        \A k \in DOMAIN graph : \A p \in Range(Inbound(graph[k])) :
            \E j \in 1..(k - 1) : graph[j] = p

\* C2: every call of topological_sort ends either returning each discovered node
\* exactly once or with the CycleDetected error.
C2_CompleteOrCycleDetected ==
    SortEnded =>
        \/ /\ result = "sort:returned"
           /\ Len(graph) = Cardinality(DOMAIN G)
           /\ \A n \in DOMAIN G : Cardinality(Position(graph, n)) = 1
        \/ result = "sort:CycleDetected"

\* C3: once the forward pass over a returned order has ended, every node reachable
\* from the seed Inputs has a value that is not None.
C3_ForwardDefinesReachable ==
    (pc = "backward" \/ PassEnded) => \A n \in Reachable : value[n] # None

\* C4: in a completed pass, each forward step of a node comes after a forward step of
\* each of its inbound nodes, each backward step after a backward step of each of its
\* consumers, and every forward step before every backward step.
C4_StepsFollowEdges ==
    result = "fb:done" =>
        \A k \in DOMAIN steps :
            LET n == steps[k][2] IN
            /\ steps[k][1] = "forward" =>
                  \A p \in Range(Inbound(n)) : \E j \in 1..(k - 1) : steps[j] = <<"forward", p>>
            /\ steps[k][1] = "backward" =>
                  /\ \A c \in Consumers(n) : \E j \in 1..(k - 1) : steps[j] = <<"backward", c>>
                  /\ \A j \in k..Len(steps) : steps[j][1] = "backward"

\* C5: after a completed pass, the gradient each Input of the sequence holds for itself
\* is the sum over its consumers of the consumer's entry for that Input (0 with no
\* consumer).
C5_InputGradientIsConsumerSum ==
    result = "fb:done" =>
        \A n \in Range(graph) : kind[n] = "Input" =>
            /\ n \in DOMAIN gradients[n]
            /\ \A c \in Consumers(n) : n \in DOMAIN gradients[c]
            /\ gradients[n][n] = SumOver(Consumers(n), gradients, n)

\* an Input with two consumers ends a pass with a gradient that is not 0
C5_Witness ==
    /\ result = "fb:done"
    /\ \E n \in Range(graph) :
          /\ kind[n] = "Input"
          /\ Cardinality(Consumers(n)) >= 2
          /\ gradients[n][n] # 0

C7_UnfedInputRejected ==
    (result = "sort:returned" \/ pc \in {"forward", "backward"}) =>
        \A n \in DOMAIN G : \A p \in Range(Inbound(n)) :
            kind[p] = "Input" => p \in DOMAIN feed_dict

\* C8: a second topological_sort of the same graph with the same feed mapping returns
\* the sequence the first returned.
C8_SortDeterministic ==
    (result = "sort:returned" /\ prev_sort # << >>) => graph = prev_sort[1]

\* C9: a second pass over the same ordering, with no feed in between, ends with the
\* value and gradients of every node as the first pass left them.
C9_PassesOverwrite ==
    (result = "fb:done" /\ prev_pass # << >>) =>
        /\ value = prev_pass[1].value
        /\ gradients = prev_pass[1].gradients

\* a second pass completes over a graph with a gradient that is not 0
C9_Witness ==
    /\ result = "fb:done"
    /\ prev_pass # << >>
    /\ \E n \in Range(graph) : kind[n] = "Input" /\ gradients[n][n] # 0
    /\ \E n \in Range(graph) : kind[n] = "MSE"

\* n is in p's outbound list as often as p is in n's inbound list; Inputs have no
\* inbound nodes
EdgesConsistent ==
    /\ \A n \in NodeIds : \A p \in NodeIds :
          Count(outbound_nodes[p], n) = Count(Inbound(n), p)
    /\ \A n \in Inputs : Inbound(n) = << >>

\* a step leaves every inbound and outbound list alone, or constructs one node, which
\* only appends itself to the outbound lists of its own inbound nodes
EdgesAppendOnly ==
    \/ UNCHANGED arena
    \/ /\ Len(kind') = Len(kind) + 1
       /\ \A n \in NodeIds :
             /\ inbound_nodes'[n] = inbound_nodes[n]
             /\ lists'[inbound_nodes[n]] = lists[inbound_nodes[n]]
             /\ \E k \in 0..3 :
                   /\ k = Count(lists'[inbound_nodes'[Len(kind')]], n)
                   /\ outbound_nodes'[n] =
                         outbound_nodes[n] \o [j \in 1..k |-> Len(kind')]

\* C10: edge bookkeeping is consistent in every state, and only construction changes
\* an inbound or outbound list, by appending the new node to its inbound nodes'
\* outbound lists.
C10_EdgeBookkeeping == []EdgesConsistent /\ [][EdgesAppendOnly]_vars

\* after calls were made, a node holds the same Input in two inbound slots and two
\* Inputs share the default list
C10_Witness ==
    /\ calls > 0
    /\ Cardinality(Inputs) >= 2
    /\ \E n \in NodeIds : \E p \in Inputs : Count(Inbound(n), p) >= 2

====
